---- MODULE Spec2Model ----
(***************************************************************************)
(* A model of bugzilla/rhbugzilla.py (class RHBugzilla): the bug mutation  *)
(* layer (_updatedeps, _updatecc, _updatewhiteboard), _getbugs, the        *)
(* component calls, and the query builder (bool_smart_split, add_boolean,  *)
(* build_query, pre_translation).                                          *)
(*                                                                         *)
(* Python values are modelled as follows.  A str is a TLA+ string; a dict  *)
(* with string keys is a function whose domain is a set of strings; a list *)
(* is a sequence.  Where a dict holds values of several Python types (the  *)
(* query and the component data) the values are tagged tuples: None,       *)
(* StrV(s), IntV(i), ListV(l).  One behaviour is one call of one method:   *)
(* the method is entered from pc = "idle", every remote call is one step   *)
(* and may fault, and the call ends in pc = "done" with its outcome.       *)
(***************************************************************************)
EXTENDS Integers, Sequences, FiniteSets, TLC

VARIABLES
    multicall,  \* self.multicall
    remote,     \* the server's record of the bug the call addresses
    pc,         \* position of the running method
    op,         \* the method that was called
    args,       \* its arguments (a dict argument is updated in place)
    r,          \* local r: the record fetched by self._getbug
    update,     \* local update: the dict handed to _update_bug
    calls,      \* the remote calls issued so far, in order
    replies,    \* the server's reply to each of them: "ok" or "fault", one per
                \* call (one per queued call for a multicall)
    outcome,    \* "none" while running, "ok", or the exception raised
    ret         \* the value returned

vars == <<multicall, remote, pc, op, args, r, update, calls, replies, outcome, ret>>

-----------------------------------------------------------------------------
(* Bounds of the model. *)

MaxId == 2      \* bug ids are 1..MaxId
MaxCC == 2      \* longest CC list (argument or on the server)
MaxDeps == 1    \* longest blocked / dependson list
MaxIdList == 2  \* longest idlist of _getbugs
MaxSplitLen == 7 \* longest string handed to bool_smart_split alone
MaxFields == 2  \* longest include_fields / column_list handed to pre_translation
MaxQueryWords == 3 \* words in all boolean filter values of one build_query call

-----------------------------------------------------------------------------
(* Python values. *)

None == <<"none">>
StrV(s) == <<"str", s>>
IntV(i) == <<"int", i>>
ListV(l) == <<"list", l>>
DictV(d) == <<"dict", d>>
FaultV == <<"fault">>

EmptyDict == [k \in {} |-> None]

\* all sequences over S of length at most n
SeqUpTo(S, n) == UNION {[1..k -> S] : k \in 0..n}

Ids == 1..MaxId
Addrs == {"x@example.com", "y@example.com"}
CCLists == SeqUpTo(Addrs, MaxCC)
DepLists == SeqUpTo(Ids, MaxDeps)
Comments == {"", "see comment"}
WbTexts == {"", "w"}             \* text arguments of _updatewhiteboard
RemoteWbTexts == {"old"}         \* whiteboard texts on the server

-----------------------------------------------------------------------------
(* The server. *)

RECURSIVE RemoveAll(_, _)
RemoveAll(l, x) ==
    IF l = <<>> THEN <<>>
    ELSE IF Head(l) = x THEN RemoveAll(Tail(l), x)
         ELSE <<Head(l)>> \o RemoveAll(Tail(l), x)

RECURSIVE CCRemove(_, _)
CCRemove(cc, l) == IF l = <<>> THEN cc ELSE CCRemove(RemoveAll(cc, Head(l)), Tail(l))

RECURSIVE CCAdd(_, _)
CCAdd(cc, l) ==
    IF l = <<>> THEN cc
    ELSE CCAdd(IF \E i \in 1..Len(cc) : cc[i] = Head(l) THEN cc ELSE Append(cc, Head(l)),
               Tail(l))

Whiteboards == {"qa_whiteboard", "devel_whiteboard"}

\* Bug.update as the server applies it to the bug's record: cc add / remove
\* edit the CC list, a whiteboard key replaces the whiteboard's text.
ServerUpdate(rec, tmp) ==
    [f \in DOMAIN rec |->
        IF f = "cc" /\ "cc" \in DOMAIN tmp
        THEN IF "remove" \in DOMAIN tmp["cc"] THEN CCRemove(rec[f], tmp["cc"]["remove"])
             ELSE IF "add" \in DOMAIN tmp["cc"] THEN CCAdd(rec[f], tmp["cc"]["add"])
             ELSE rec[f]
        ELSE IF f \in Whiteboards /\ f \in DOMAIN tmp THEN tmp[f]
        ELSE rec[f]]

\* the records the server may hold for the bug
RemoteRecords ==
    {ccpart @@ wbpart :
        ccpart \in {EmptyDict} \cup {("cc" :> l) : l \in CCLists},
        wbpart \in UNION {[D -> RemoteWbTexts] : D \in SUBSET Whiteboards}}

-----------------------------------------------------------------------------
(* Remote calls. *)

Call(method, params) == [method |-> method, params |-> params]
Reply(fault) == IF fault THEN "fault" ELSE "ok"

\* self._getbug(objid) is self._getbugs([objid])[0]: with multicall a single id
\* goes out as one bugzilla.getBug call, without as Bug.get.
getBugCall(objid) ==
    IF multicall THEN Call("bugzilla.getBug", objid)
    ELSE Call("Bug.get", [ids |-> <<objid>>])

\* what the server returns for bug objid
getBugRecord(objid) == ("bug_id" :> objid) @@ remote

IsFetch(c) == c.method \in {"bugzilla.getBug", "Bug.get", "system.multicall"}
IsUpdate(c) == c.method = "Bug.update"

\* raise exc: the method ends, nothing else changes
Raise(exc) ==
    /\ pc' = "done"
    /\ outcome' = exc
    /\ UNCHANGED <<multicall, remote, r, update, calls, replies, ret>>

_update_bugs(ids, updates) ==
    LET custom_fields == {"fixed_in"}
        key(k) == IF k \in custom_fields THEN "cf_" \o k ELSE k
    IN [k \in {"ids"} \cup {key(k0) : k0 \in DOMAIN updates} |->
            IF k \in {key(k0) : k0 \in DOMAIN updates}
            THEN updates[CHOOSE k0 \in DOMAIN updates : key(k0) = k]
            ELSE ids]

_update_bug(objid, updates) == _update_bugs(<<objid>>, updates)

\* a variant in which the method goes on at okpc although the call faulted
SendUpdate_ignore_fault(tmp, fault, okpc) ==
    /\ calls' = Append(calls, Call("Bug.update", tmp))
    /\ replies' = Append(replies, <<Reply(fault)>>)
    /\ pc' = okpc
    /\ outcome' = (IF okpc = "done" THEN "ok" ELSE outcome)
    /\ remote' = (IF fault THEN remote ELSE ServerUpdate(remote, tmp))
    /\ UNCHANGED <<multicall, op, args, r, update, ret>>

\* self._proxy.Bug.update(tmp): the call goes out; it faults, or the server
\* applies it and the method goes on at okpc
SendUpdate(tmp, fault, okpc) ==
    /\ calls' = Append(calls, Call("Bug.update", tmp))
    /\ replies' = Append(replies, <<Reply(fault)>>)
    /\ IF fault
       THEN /\ pc' = "done"
            /\ outcome' = "Fault"
            /\ remote' = remote
       ELSE /\ pc' = okpc
            /\ outcome' = (IF okpc = "done" THEN "ok" ELSE outcome)
            /\ remote' = ServerUpdate(remote, tmp)
    /\ UNCHANGED <<multicall, op, args, r, update, ret>>

_update_add_comment_fields(updatedict, comment, private) ==
    IF comment = "" THEN updatedict
    ELSE LET commentdict == IF private THEN [body |-> comment, is_private |-> private]
                            ELSE [body |-> comment]
         IN ("comment" :> commentdict) @@ updatedict

-----------------------------------------------------------------------------
(* _updatedeps *)

\* a variant that sends the action verb 'delete' to the server as it is
updatedeps_dict_noremap(blocked, dependson, action) ==
    [blocks |-> (action :> blocked), depends_on |-> (action :> dependson)]

\* the update dict of _updatedeps: 'delete' becomes 'remove'
updatedeps_dict(blocked, dependson, action) ==
    LET act == IF action = "delete" THEN "remove" ELSE action
    IN [blocks |-> (act :> blocked), depends_on |-> (act :> dependson)]

updatedeps(objid, blocked, dependson, action) ==
    /\ pc = "idle"
    /\ op' = "_updatedeps"
    /\ args' = [objid |-> objid, blocked |-> blocked, dependson |-> dependson,
                action |-> action]
    /\ IF action \notin {"add", "delete", "set"}
       THEN /\ Raise("ValueError")
       ELSE /\ update' = updatedeps_dict(blocked, dependson, action)
            /\ pc' = "deps_update"
            /\ UNCHANGED <<multicall, remote, r, calls, replies, outcome, ret>>

updatedeps_update ==
    /\ pc = "deps_update"
    /\ \E fault \in BOOLEAN : SendUpdate(_update_bug(args.objid, update), fault, "done")

-----------------------------------------------------------------------------
(* _updatecc *)

\* a variant that sends the action verb 'delete' to the server as it is
updatecc_dict_noremap(cclist, action, comment) ==
    ("cc" :> (action :> cclist))

\* the update dict _updatecc builds for action add / delete
updatecc_dict(cclist, action, comment) ==
    LET update0 == _update_add_comment_fields(EmptyDict, comment, FALSE)
        act == IF action = "delete" THEN "remove" ELSE action
        update1 == EmptyDict       \* update = {} : update0 is dropped here
    IN ("cc" :> (act :> cclist)) @@ update1

updatecc(objid, cclist, action, comment) ==
    /\ pc = "idle"
    /\ op' = "_updatecc"
    /\ args' = [objid |-> objid, cclist |-> cclist, action |-> action,
                comment |-> comment]
    /\ IF action \in {"add", "delete"}
       THEN /\ update' = updatecc_dict(cclist, action, comment)
            /\ pc' = "cc_update"
            /\ UNCHANGED <<multicall, remote, r, calls, replies, outcome, ret>>
       ELSE IF action = "overwrite"
       THEN /\ update' = _update_add_comment_fields(EmptyDict, comment, FALSE)
            /\ pc' = "cc_getbug"
            /\ UNCHANGED <<multicall, remote, r, calls, replies, outcome, ret>>
       ELSE /\ Raise("ValueError")

updatecc_update ==
    /\ pc = "cc_update"
    /\ \E fault \in BOOLEAN : SendUpdate(_update_bug(args.objid, update), fault, "done")

\* r = self._getbug(objid); if 'cc' not in r: raise AttributeError
updatecc_getbug ==
    /\ pc = "cc_getbug"
    /\ calls' = Append(calls, getBugCall(args.objid))
    /\ \E fault \in BOOLEAN :
        /\ replies' = Append(replies, <<Reply(fault)>>)
        /\ IF fault
           THEN /\ pc' = "done" /\ outcome' = "Fault" /\ r' = r
           ELSE /\ r' = getBugRecord(args.objid)
                /\ IF "cc" \notin DOMAIN getBugRecord(args.objid)
                   THEN pc' = "done" /\ outcome' = "AttributeError"
                   ELSE pc' = "cc_delete" /\ outcome' = outcome
    /\ UNCHANGED <<multicall, remote, op, args, update, ret>>

\* self._updatecc(objid, r['cc'], 'delete')
updatecc_delete ==
    /\ pc = "cc_delete"
    /\ \E fault \in BOOLEAN :
        SendUpdate(_update_bug(args.objid, updatecc_dict(r["cc"], "delete", "")),
                   fault, "cc_add")

\* self._updatecc(objid, cclist, 'add')
updatecc_add ==
    /\ pc = "cc_add"
    /\ \E fault \in BOOLEAN :
        SendUpdate(_update_bug(args.objid, updatecc_dict(args.cclist, "add", "")),
                   fault, "done")

-----------------------------------------------------------------------------
(* _updatewhiteboard *)

endswith(s, suffix) ==
    /\ Len(s) >= Len(suffix)
    /\ SubSeq(s, Len(s) - Len(suffix) + 1, Len(s)) = suffix

\* a variant that appends the suffix to every name
normalize_which_always(which) == which \o "_whiteboard"

\* if not which.endswith('_whiteboard'): which = which + '_whiteboard'
normalize_which(which) ==
    IF ~endswith(which, "_whiteboard") THEN which \o "_whiteboard" ELSE which

updatewhiteboard(objid, text, which, action, comment, private) ==
    /\ pc = "idle"
    /\ op' = "_updatewhiteboard"
    /\ args' = [objid |-> objid, text |-> text, which |-> which,
                action |-> action, comment |-> comment, private |-> private]
    /\ IF action = "overwrite"
       THEN /\ update' = _update_add_comment_fields(
                            (normalize_which(which) :> text), comment, private)
            /\ pc' = "wb_update"
       ELSE /\ update' = EmptyDict
            /\ pc' = "wb_getbug"
    /\ UNCHANGED <<multicall, remote, r, calls, replies, outcome, ret>>

\* r = self._getbug(objid); if which not in r: raise ValueError; then the
\* prepend / append branches and _update_add_comment_fields
updatewhiteboard_getbug ==
    /\ pc = "wb_getbug"
    /\ calls' = Append(calls, getBugCall(args.objid))
    /\ \E fault \in BOOLEAN :
        /\ replies' = Append(replies, <<Reply(fault)>>)
        /\ IF fault
           THEN /\ pc' = "done" /\ outcome' = "Fault" /\ r' = r /\ update' = update
           ELSE LET which == normalize_which(args.which)
                    rec == getBugRecord(args.objid)
                IN /\ r' = rec
                   /\ IF which \notin DOMAIN rec
                      THEN pc' = "done" /\ outcome' = "ValueError" /\ update' = update
                      ELSE LET wb == rec[which]
                               update1 ==
                                  IF args.action = "prepend"
                                  THEN (which :> (args.text \o " " \o wb)) @@ update
                                  ELSE IF args.action = "append"
                                  THEN (which :> (wb \o " " \o args.text)) @@ update
                                  ELSE update
                           IN /\ update' = _update_add_comment_fields(
                                                update1, args.comment, args.private)
                              /\ pc' = "wb_update"
                              /\ outcome' = outcome
    /\ UNCHANGED <<multicall, remote, op, args, ret>>

updatewhiteboard_update ==
    /\ pc = "wb_update"
    /\ \E fault \in BOOLEAN : SendUpdate(_update_bug(args.objid, update), fault, "done")

-----------------------------------------------------------------------------
(* _getbugs *)

\* bugzilla.base.replace_getbug_errors_with_None: a raw multicall result that
\* is an error becomes None
replace_getbug_errors_with_None(rawlist) ==
    [i \in 1..Len(rawlist) |-> IF rawlist[i] = FaultV THEN None ELSE rawlist[i]]

\* unreadable: the ids the server cannot read; a call for one of them faults
getbugs(idlist, unreadable) ==
    /\ pc = "idle"
    /\ op' = "_getbugs"
    /\ args' = [idlist |-> idlist]
    /\ IF multicall
       THEN IF Len(idlist) = 1
            THEN /\ calls' = <<Call("bugzilla.getBug", idlist[1])>>
                 /\ replies' = << <<Reply(idlist[1] \in unreadable)>> >>
                 /\ IF idlist[1] \in unreadable
                    THEN outcome' = "Fault" /\ ret' = ret
                    ELSE outcome' = "ok" /\ ret' = ListV(<<DictV(getBugRecord(idlist[1]))>>)
            ELSE LET raw_results ==
                         [i \in 1..Len(idlist) |->
                             IF idlist[i] \in unreadable THEN FaultV
                             ELSE DictV(getBugRecord(idlist[i]))]
                 IN /\ calls' = <<Call("system.multicall",
                                       [i \in 1..Len(idlist) |->
                                           Call("bugzilla.getBug", idlist[i])])>>
                    /\ replies' = << [i \in 1..Len(idlist) |->
                                        Reply(idlist[i] \in unreadable)] >>
                    /\ outcome' = "ok"
                    /\ ret' = ListV(replace_getbug_errors_with_None(raw_results))
       ELSE /\ calls' = <<Call("Bug.get", [ids |-> idlist])>>
            /\ replies' = << <<Reply(\E i \in 1..Len(idlist) : idlist[i] \in unreadable)>> >>
            /\ IF \E i \in 1..Len(idlist) : idlist[i] \in unreadable
               THEN outcome' = "Fault" /\ ret' = ret
               ELSE outcome' = "ok"
                    /\ ret' = ListV([i \in 1..Len(idlist) |-> DictV(getBugRecord(idlist[i]))])
    /\ pc' = "done"
    /\ UNCHANGED <<multicall, remote, r, update>>

-----------------------------------------------------------------------------
(* The calls on bugs, with their arguments. *)

Actions == {"add", "delete", "set", "overwrite", "append", "prepend", "replace"}
Whiches == {"qa", "qa_whiteboard", "status"}
IdLists == SeqUpTo(Ids, MaxIdList)

Idle ==
    /\ pc = "idle"
    /\ op = "none"
    /\ args = EmptyDict
    /\ r = EmptyDict
    /\ update = EmptyDict
    /\ calls = <<>>
    /\ replies = <<>>
    /\ outcome = "none"
    /\ ret = None

Init ==
    /\ multicall \in BOOLEAN
    /\ remote \in RemoteRecords
    /\ Idle

\* the calls that may be made while no method runs
Begin ==
    /\ pc = "idle"
    /\ \/ \E objid \in Ids, blocked \in DepLists, dependson \in DepLists,
             action \in Actions :
                updatedeps(objid, blocked, dependson, action)
       \/ \E objid \in Ids, cclist \in CCLists, action \in Actions, comment \in Comments :
                updatecc(objid, cclist, action, comment)
       \/ \E objid \in Ids, text \in WbTexts, which \in Whiches, action \in Actions,
             comment \in Comments, private \in BOOLEAN :
                updatewhiteboard(objid, text, which, action, comment, private)
       \/ \E idlist \in IdLists, unreadable \in SUBSET Ids : getbugs(idlist, unreadable)

Next ==
    \/ Begin
    \/ updatedeps_update
    \/ updatecc_update
    \/ updatecc_getbug
    \/ updatecc_delete
    \/ updatecc_add
    \/ updatewhiteboard_getbug
    \/ updatewhiteboard_update

Spec == Init /\ [][Next]_vars

-----------------------------------------------------------------------------
(* _addcomponent and _editcomponent (specification CompSpec).  args.data is  *)
(* the dict the caller passed, with the changes the method makes to it;      *)
(* args.given keeps it as it was passed.                                     *)

Truthy(v) ==
    IF v = None THEN FALSE
    ELSE IF v[1] = "str" THEN v[2] # ""
    ELSE IF v[1] = "int" THEN v[2] # 0
    ELSE IF v[1] = "list" THEN v[2] # <<>>
    ELSE TRUE

IsInt(v) == v # None /\ v[1] = "int"

add_required_fields == <<"product", "component", "initialowner", "description">>
edit_required_fields == <<"initialowner", "product", "component">>

\* a variant of the loop that only looks for absent keys
RECURSIVE first_missing_absent_only(_, _)
first_missing_absent_only(required, data) ==
    IF required = <<>> THEN ""
    ELSE IF Head(required) \notin DOMAIN data THEN Head(required)
    ELSE first_missing_absent_only(Tail(required), data)

\* for field in required: if field not in data or not data[field]: raise ...
\* the field the loop raises for, "" when it raises for none
RECURSIVE first_missing(_, _)
first_missing(required, data) ==
    IF required = <<>> THEN ""
    ELSE IF Head(required) \notin DOMAIN data \/ ~Truthy(data[Head(required)])
         THEN Head(required)
    ELSE first_missing(Tail(required), data)

component(method, required, message, data) ==
    /\ pc = "idle"
    /\ op' = method
    /\ args' = [data |-> data, given |-> data]
    /\ LET field == first_missing(required, data)
       IN IF field # ""
          THEN /\ pc' = "done"
               /\ outcome' = "TypeError"
               /\ ret' = StrV(message \o field)
          ELSE /\ pc' = (IF IsInt(data["product"]) THEN "comp_lookup" ELSE "comp_send")
               /\ UNCHANGED <<outcome, ret>>
    /\ UNCHANGED <<multicall, remote, r, update, calls, replies>>

addcomponent(data) ==
    component("_addcomponent", add_required_fields, "mandatory fields missing: ", data)

editcomponent(data) ==
    component("_editcomponent", edit_required_fields, "mandatory field missing: ", data)

\* the name the product lookup returns
ProductName == StrV("Fedora")

\* data['product'] = self._product_id_to_name(data['product'])
component_lookup ==
    /\ pc = "comp_lookup"
    /\ calls' = Append(calls, Call("_product_id_to_name", args.data["product"][2]))
    /\ \E fault \in BOOLEAN :
        /\ replies' = Append(replies, <<Reply(fault)>>)
        /\ IF fault
           THEN pc' = "done" /\ outcome' = "Fault" /\ args' = args
           ELSE /\ pc' = "comp_send"
                /\ outcome' = outcome
                /\ args' = [args EXCEPT !.data = ("product" :> ProductName) @@ args.data]
    /\ UNCHANGED <<multicall, remote, op, r, update, ret>>

\* what the server answers to addComponent / editComponent
ServerResult == <<"result">>

\* r = self._proxy.bugzilla.addComponent(data, self.user, self.password)
component_send ==
    /\ pc = "comp_send"
    /\ calls' = Append(calls,
                       Call(IF op = "_addcomponent" THEN "bugzilla.addComponent"
                            ELSE "bugzilla.editComponent", args.data))
    /\ \E fault \in BOOLEAN :
        /\ replies' = Append(replies, <<Reply(fault)>>)
        /\ outcome' = (IF fault THEN "Fault" ELSE "ok")
        /\ ret' = (IF fault THEN ret ELSE ServerResult)
    /\ pc' = "done"
    /\ UNCHANGED <<multicall, remote, op, args, r, update>>

ComponentFields == {"product", "component", "initialowner", "description"}
ComponentValues == {StrV(""), StrV("x"), IntV(0), IntV(3)}
ComponentData == UNION {[D -> ComponentValues] : D \in SUBSET ComponentFields}

CompInit ==
    /\ multicall = TRUE
    /\ remote = EmptyDict
    /\ Idle

CompBegin ==
    /\ pc = "idle"
    /\ \/ \E data \in ComponentData : addcomponent(data)
       \/ \E data \in ComponentData : editcomponent(data)

CompNext ==
    \/ CompBegin
    \/ component_lookup
    \/ component_send

CompSpec == CompInit /\ [][CompNext]_vars

-----------------------------------------------------------------------------
(* Strings. *)

char(s, i) == SubSeq(s, i, i)

\* s.find(c) for a one-character c: the 0-based index of the first c, or -1
find(s, c) ==
    IF \E i \in 1..Len(s) : char(s, i) = c
    THEN (CHOOSE i \in 1..Len(s) :
            char(s, i) = c /\ \A j \in 1..(i - 1) : char(s, j) # c) - 1
    ELSE -1

\* s.split(sep) for a one-character sep
RECURSIVE split(_, _)
split(s, sep) ==
    LET i == find(s, sep)
    IN IF i = -1 THEN <<s>>
       ELSE <<SubSeq(s, 1, i)>> \o split(SubSeq(s, i + 2, Len(s)), sep)

\* s.split(sep, maxsplit)
RECURSIVE splitmax(_, _, _)
splitmax(s, sep, maxsplit) ==
    LET i == find(s, sep)
    IN IF i = -1 \/ maxsplit = 0 THEN <<s>>
       ELSE <<SubSeq(s, 1, i)>> \o splitmax(SubSeq(s, i + 2, Len(s)), sep, maxsplit - 1)

Whitespace == {" ", "\t"}

\* s.strip()
RECURSIVE strip(_)
strip(s) ==
    IF s = "" THEN s
    ELSE IF char(s, 1) \in Whitespace THEN strip(SubSeq(s, 2, Len(s)))
    ELSE IF char(s, Len(s)) \in Whitespace THEN strip(SubSeq(s, 1, Len(s) - 1))
    ELSE s

\* "%i" % n for n >= 0
RECURSIVE itoa(_)
itoa(n) ==
    IF n < 10 THEN char("0123456789", n + 1)
    ELSE itoa(n \div 10) \o char("0123456789", (n % 10) + 1)

\* all strings over the characters C of length at most n
RECURSIVE Strings(_, _)
Strings(C, n) ==
    IF n = 0 THEN {""}
    ELSE LET S == Strings(C, n - 1) IN S \cup {s \o c : s \in S, c \in C}

-----------------------------------------------------------------------------
(* build_query: bool_smart_split *)

boolchars == {"|", "&", "!"}

\* a variant of the loop that glues the words of a term without the space
RECURSIVE smart_split_loop_nospace(_, _, _)
smart_split_loop_nospace(words, add, retlist) ==
    IF words = <<>> THEN (IF add # "" THEN Append(retlist, add) ELSE retlist)
    ELSE LET word == Head(words)
         IN IF strip(word) \in boolchars
            THEN smart_split_loop_nospace(
                    Tail(words), "",
                    Append(IF add # "" THEN Append(retlist, add) ELSE retlist, strip(word)))
            ELSE smart_split_loop_nospace(Tail(words), add \o word, retlist)

\* the loop over boolval.split(" ") and the final append, with the locals
\* add and retlist
RECURSIVE smart_split_loop(_, _, _)
smart_split_loop(words, add, retlist) ==
    IF words = <<>> THEN (IF add # "" THEN Append(retlist, add) ELSE retlist)
    ELSE LET word == Head(words)
         IN IF strip(word) \in boolchars
            THEN smart_split_loop(
                    Tail(words), "",
                    Append(IF add # "" THEN Append(retlist, add) ELSE retlist, strip(word)))
            ELSE smart_split_loop(Tail(words),
                                  (IF add # "" THEN add \o " " ELSE add) \o word,
                                  retlist)

bool_smart_split(boolval) == smart_split_loop(split(boolval, " "), "", <<>>)

\* the pure function applied to a string
smart_split(boolval) ==
    /\ pc = "idle"
    /\ op' = "bool_smart_split"
    /\ args' = [boolval |-> boolval]
    /\ ret' = ListV(bool_smart_split(boolval))
    /\ outcome' = "ok"
    /\ pc' = "done"
    /\ UNCHANGED <<multicall, remote, r, update, calls, replies>>

-----------------------------------------------------------------------------
(* pre_translation.  args.query is the dict the caller passed, with the      *)
(* changes the method makes to it; args.given keeps it as it was passed.     *)

Without(d, k) == [x \in DOMAIN d \ {k} |-> d[x]]

IsList(v) == v # None /\ v[1] = "list"

Contains(l, x) == \E i \in 1..Len(l) : l[i] = x

\* l.remove(x): the first x is taken out of l
ListRemove(l, x) ==
    LET i == CHOOSE i \in 1..Len(l) : l[i] = x /\ \A j \in 1..(i - 1) : l[j] # x
    IN SubSeq(l, 1, i - 1) \o SubSeq(l, i + 1, Len(l))

\* self.field_aliases: pairs (newname, oldname)
field_aliases ==
    << <<"id", "bug_id">>, <<"blocks", "blockedby">>, <<"blocks", "blocked">> >>

\* for newname, oldname in self.field_aliases: ...
RECURSIVE alias_loop(_, _)
alias_loop(aliases, include_fields) ==
    IF aliases = <<>> THEN include_fields
    ELSE LET newname == Head(aliases)[1]
             oldname == Head(aliases)[2]
         IN IF Contains(include_fields, oldname)
            THEN LET removed == ListRemove(include_fields, oldname)
                 IN alias_loop(Tail(aliases),
                               IF ~Contains(removed, newname) THEN Append(removed, newname)
                               ELSE removed)
            ELSE alias_loop(Tail(aliases), include_fields)

pre_translation(query) ==
    LET q1 == IF "bug_id" \in DOMAIN query
              THEN Without(("id" :> (IF ~IsList(query["bug_id"])
                                     THEN ListV(split(query["bug_id"][2], ","))
                                     ELSE query["bug_id"])) @@ query,
                           "bug_id")
              ELSE query
        q2 == IF "component" \in DOMAIN q1 /\ ~IsList(q1["component"])
              THEN ("component" :> ListV(split(q1["component"][2], ","))) @@ q1
              ELSE q1
        q3 == IF "include_fields" \notin DOMAIN q2
              THEN Without(("include_fields" :> q2["column_list"]) @@ q2, "column_list")
              ELSE q2
    IN IF "include_fields" \notin DOMAIN q2 /\ "column_list" \notin DOMAIN q2
       THEN q2
       ELSE ("include_fields" :> ListV(alias_loop(field_aliases, q3["include_fields"][2])))
                @@ q3

translate(query) ==
    /\ pc = "idle"
    /\ op' = "pre_translation"
    /\ args' = [query |-> pre_translation(query), given |-> query]
    /\ outcome' = "ok"
    /\ pc' = "done"
    /\ UNCHANGED <<multicall, remote, r, update, calls, replies, ret>>

-----------------------------------------------------------------------------
(* build_query.  The closures add_email and add_boolean work on the locals   *)
(* kwargs and query; they are operators on a record st of those locals, the  *)
(* two counters, and err, which is set when RuntimeError was raised.         *)

BoolV(b) == <<"bool", b>>

\* kwargs.get(key, default)
get(kwargs, key, default) == IF key \in DOMAIN kwargs THEN kwargs[key] ELSE default

add_email(st, key) ==
    IF key \notin DOMAIN st.kwargs THEN st
    ELSE LET value == st.kwargs[key]
             kwargs == Without(st.kwargs, key)
             count == st.email_count
         IN IF value = None THEN [st EXCEPT !.kwargs = kwargs]
            ELSE [st EXCEPT
                    !.kwargs = kwargs,
                    !.query = ("emailtype" \o itoa(count) :>
                                    get(kwargs, "emailtype", StrV("substring")))
                              @@ ("email" \o key \o itoa(count) :> BoolV(TRUE))
                              @@ ("email" \o itoa(count) :> value)
                              @@ ("query_format" :> StrV("advanced"))
                              @@ st.query,
                    !.email_count = count + 1]

\* "%s%i-%i-%i" % (prefix, bool_id, and_count, or_count)
make_bool_str(prefix, bool_id, and_count, or_count) ==
    prefix \o itoa(bool_id) \o "-" \o itoa(and_count) \o "-" \o itoa(or_count)

\* for par in bool_smart_split(boolval): ...   key is None for boolean_query.
\* (pars, query and the counters are bound to the values of the arguments.)
RECURSIVE pars_loop(_, _, _, _, _, _, _)
pars_loop(pars0, kwargs, key, query0, bool_id, and_count0, or_count0) ==
    CHOOSE res \in
      { IF pars = <<>> THEN [query |-> query, err |-> FALSE]
        ELSE LET par == Head(pars)
                 isop == par \in {"&", "|", "!"}
                 raw == ~isop /\ key = None
                 pargs == splitmax(par, "-", 2)
                 field == IF isop THEN None
                          ELSE IF raw THEN StrV(pargs[1])
                          ELSE key
                 typ == IF raw THEN StrV(pargs[2])
                        ELSE get(kwargs, "booleantype", StrV("substring"))
                 fval == IF raw THEN (IF Len(pargs) = 3 THEN StrV(pargs[3]) ELSE None)
                         ELSE StrV(par)
                 and1 == IF par = "&" THEN and_count + 1 ELSE and_count
                 or1 == IF par = "|" THEN or_count + 1 ELSE or_count
                 q1 == IF par = "!" THEN ("negate" \o itoa(bool_id) :> IntV(1)) @@ query
                       ELSE query
                 q2 == (make_bool_str("field", bool_id, and1, or1) :> field) @@ q1
                 q3 == IF Truthy(fval)
                       THEN (make_bool_str("value", bool_id, and1, or1) :> fval) @@ q2
                       ELSE q2
                 q4 == (make_bool_str("type", bool_id, and1, or1) :> typ) @@ q3
             IN IF raw /\ find(par, "-") = -1
                THEN [query |-> query, err |-> TRUE]
                ELSE pars_loop(Tail(pars), kwargs, key, q4, bool_id, and1, or1)
        : pars \in {pars0}, query \in {query0},
          and_count \in {and_count0}, or_count \in {or_count0} } : TRUE

\* a variant of the loop that keeps one chart id for all values of the key
\* and increments it after the last of them
RECURSIVE values_loop_one_chart(_, _, _, _, _)
values_loop_one_chart(value, kwargs, key, query0, bool_id) ==
    CHOOSE out \in
      { IF value = <<>> THEN [query |-> query, bool_id |-> bool_id + 1, err |-> FALSE]
        ELSE CHOOSE out1 \in
               { IF res.err THEN [query |-> res.query, bool_id |-> bool_id, err |-> TRUE]
                 ELSE values_loop_one_chart(Tail(value), kwargs, key, res.query, bool_id)
                 : res \in {pars_loop(bool_smart_split(Head(value)), kwargs, key, query,
                                      bool_id, 0, 0)} } : TRUE
        : query \in {query0} } : TRUE

\* for boolval in value: ... bool_id += 1
\* (query and res are bound to the values of the expressions.)
RECURSIVE values_loop(_, _, _, _, _)
values_loop(value, kwargs, key, query0, bool_id) ==
    CHOOSE out \in
      { IF value = <<>> THEN [query |-> query, bool_id |-> bool_id, err |-> FALSE]
        ELSE CHOOSE out1 \in
               { IF res.err THEN [query |-> res.query, bool_id |-> bool_id, err |-> TRUE]
                 ELSE values_loop(Tail(value), kwargs, key, res.query, bool_id + 1)
                 : res \in {pars_loop(bool_smart_split(Head(value)), kwargs, key, query,
                                      bool_id, 0, 0)} } : TRUE
        : query \in {query0} } : TRUE

add_boolean(st, kwkey, key) ==
    IF st.err \/ kwkey \notin DOMAIN st.kwargs THEN st
    ELSE LET value == st.kwargs[kwkey]
             kwargs == Without(st.kwargs, kwkey)
         IN IF value = None THEN [st EXCEPT !.kwargs = kwargs]
            ELSE CHOOSE st1 \in
                   { [st EXCEPT !.kwargs = kwargs, !.query = res.query,
                                !.bool_id = res.bool_id, !.err = res.err]
                     : res \in {values_loop(value[2], kwargs, key,
                                            ("query_format" :> StrV("advanced"))
                                                @@ st.query,
                                            st.bool_id)} } : TRUE

\* Bugzilla42.build_query(self, **kwargs): the remaining keyword arguments
\* as query keys
Bugzilla42_build_query(kwargs) == kwargs

\* the locals of build_query after the add_email and add_boolean calls (each
\* step is taken on the value the step before it left)
build_query_charts(kwargs) ==
    LET st0 == [kwargs |-> kwargs, query |-> EmptyDict, email_count |-> 1,
                bool_id |-> 0, err |-> FALSE]
        e1 == {add_email(st, "cc") : st \in {st0}}
        e2 == {add_email(st, "assigned_to") : st \in e1}
        e3 == {add_email(st, "reporter") : st \in e2}
        e4 == {add_email(st, "qa_contact") : st \in e3}
        b1 == {add_boolean(st, "fixed_in", StrV("cf_fixed_in")) : st \in e4}
        b2 == {add_boolean(st, "blocked", StrV("blocked")) : st \in b1}
        b3 == {add_boolean(st, "dependson", StrV("dependson")) : st \in b2}
        b4 == {add_boolean(st, "flag", StrV("flagtypes.name")) : st \in b3}
        b5 == {add_boolean(st, "qa_whiteboard", StrV("cf_qa_whiteboard")) : st \in b4}
        b6 == {add_boolean(st, "devel_whiteboard", StrV("cf_devel_whiteboard")) : st \in b5}
        b7 == {add_boolean(st, "alias", StrV("alias")) : st \in b6}
        b8 == {add_boolean(st, "boolean_query", None) : st \in b7}
    IN CHOOSE st \in b8 : TRUE

build_query(kwargs) ==
    /\ pc = "idle"
    /\ op' = "build_query"
    /\ args' = [kwargs |-> kwargs]
    /\ \E st \in {build_query_charts(kwargs)} :
          IF st.err
          THEN outcome' = "RuntimeError" /\ ret' = ret
          ELSE /\ outcome' = "ok"
               /\ ret' = DictV(pre_translation(Bugzilla42_build_query(st.kwargs)
                                                   @@ st.query))
    /\ pc' = "done"
    /\ UNCHANGED <<multicall, remote, r, update, calls, replies>>

-----------------------------------------------------------------------------
(* Claims about the calls on bugs (specification Spec). *)

InOverwrite == op = "_updatecc" /\ args.action = "overwrite"

\* the three calls of a CC overwrite of bug objid: fetch, remove E, add N
OverwriteCalls(objid, E, N) ==
    << getBugCall(objid),
       Call("Bug.update", [ids |-> <<objid>>, cc |-> [remove |-> E]]),
       Call("Bug.update", [ids |-> <<objid>>, cc |-> [add |-> N]]) >>

\* C1: _updatecc(id, N, 'overwrite') first fetches the bug and then issues
\* exactly two update calls, cc = {remove: E} and then cc = {add: N}, E being
\* the 'cc' list of the fetched record (the calls issued are at any moment the
\* first calls of that sequence, and all three when the call returns); if the
\* fetched record has no 'cc' field it fails with no update call at all.
C1_OverwriteFetchRemoveAdd ==
    InOverwrite =>
        /\ pc = "cc_getbug" => calls = <<>>
        /\ pc \in {"cc_delete", "cc_add", "done"} =>
              /\ Len(calls) >= 1
              /\ calls[1] = getBugCall(args.objid)
        /\ pc \in {"cc_delete", "cc_add"} \/ outcome = "ok" =>
              /\ "cc" \in DOMAIN r
              /\ Len(calls) = (IF pc = "cc_delete" THEN 1 ELSE IF pc = "cc_add" THEN 2 ELSE 3)
              /\ calls = SubSeq(OverwriteCalls(args.objid, r["cc"], args.cclist),
                                1, Len(calls))
        /\ outcome = "AttributeError" =>
              /\ "cc" \notin DOMAIN r
              /\ Len(calls) = 1
        /\ outcome = "Fault" =>
              /\ Len(calls) <= 3
              /\ \A i \in 2..Len(calls) :
                    calls[i] = OverwriteCalls(args.objid, r["cc"], args.cclist)[i]
        /\ outcome \in {"none", "ok", "AttributeError", "Fault"}

C1_Witness ==
    /\ InOverwrite
    /\ outcome = "ok"
    /\ Len(calls) = 3
    /\ r["cc"] # <<>>
    /\ args.cclist # <<>>
    /\ r["cc"] # args.cclist

ValidActions(method) ==
    IF method = "_updatedeps" THEN {"add", "delete", "set"}
    ELSE IF method = "_updatecc" THEN {"add", "delete", "overwrite"}
    ELSE {"overwrite", "append", "prepend"}

\* C2: an invalid action verb of _updatedeps, _updatecc or _updatewhiteboard
\* is rejected with a validation error before any remote call: no fetch and
\* no update is issued, and the call ends in a ValueError.
C2_InvalidVerbRejected ==
    (op \in {"_updatedeps", "_updatecc", "_updatewhiteboard"}
        /\ args.action \notin ValidActions(op)) =>
            /\ calls = <<>>
            /\ pc = "done" => outcome = "ValueError"

\* C9: for action add, set or delete, _updatedeps issues exactly one update
\* call, with payload {ids: [id], blocks: {verb: blocked}, depends_on:
\* {verb: dependson}}, verb being 'remove' for 'delete' and the action
\* otherwise; the lists go out as given.
C9_UpdateDepsPayload ==
    (op = "_updatedeps" /\ args.action \in {"add", "set", "delete"}) =>
        LET verb == IF args.action = "delete" THEN "remove" ELSE args.action
        IN /\ pc = "deps_update" => calls = <<>>
           /\ pc # "deps_update" =>
                /\ pc = "done"
                /\ outcome \in {"ok", "Fault"}
                /\ Len(calls) = 1
                /\ calls[1].method = "Bug.update"
                /\ DOMAIN calls[1].params = {"ids", "blocks", "depends_on"}
                /\ calls[1].params.ids = <<args.objid>>
                /\ calls[1].params.blocks = (verb :> args.blocked)
                /\ calls[1].params.depends_on = (verb :> args.dependson)

C9_Witness ==
    /\ op = "_updatedeps"
    /\ args.action = "delete"
    /\ args.blocked # <<>>
    /\ args.dependson = <<>>
    /\ outcome = "ok"
    /\ Len(calls) = 1

CarriesComment(c, comment) ==
    /\ IsUpdate(c)
    /\ "comment" \in DOMAIN c.params
    /\ c.params["comment"].body = comment

\* C10: when _updatecc is called with a non-empty comment and succeeds, the
\* comment went to the server: for add / delete the one update call carries
\* {body: comment} together with the cc change, for overwrite at least one
\* of the update calls carries it.
C10_CommentSent ==
    (op = "_updatecc" /\ args.comment # "" /\ outcome = "ok") =>
        \E i \in 1..Len(calls) :
            /\ CarriesComment(calls[i], args.comment)
            /\ "cc" \in DOMAIN calls[i].params

\* C4: with multicall, _getbugs(idlist) returns a list as long as idlist
\* whose i-th entry is the record of idlist[i], or None when the getBug call
\* for idlist[i] faulted, and a fault never aborts the request; without
\* multicall a fault aborts the request and nothing is returned.
C4_GetbugsLenient ==
    (op = "_getbugs" /\ pc = "done") =>
        LET idlist == args.idlist
            faulted(i) == replies[1][i] = "fault"
        IN IF multicall
           THEN /\ outcome = "ok"
                /\ ret = ListV([i \in 1..Len(idlist) |->
                                  IF faulted(i) THEN None
                                  ELSE DictV(getBugRecord(idlist[i]))])
           ELSE IF replies[1][1] = "fault"
                THEN outcome = "Fault" /\ ret = None
                ELSE /\ outcome = "ok"
                     /\ ret = ListV([i \in 1..Len(idlist) |->
                                       DictV(getBugRecord(idlist[i]))])

\* C12: a CC overwrite is not atomic and rolls nothing back.  When the
\* first update (remove of the fetched CC list) faults, the call ends in the
\* fault with the second update never issued and the server's CC list as it
\* was fetched; when the first update succeeds and the second (add of the new
\* list) faults, the call ends in the fault after exactly the three calls
\* fetch, remove, add, and the server's CC list holds neither the old entries
\* nor the new ones.
C12_OverwriteNoRollback ==
    (InOverwrite /\ pc = "done" /\ Len(replies) >= 2) =>
        IF replies[2] = <<"fault">>
        THEN /\ outcome = "Fault"
             /\ Len(calls) = 2
             /\ IsUpdate(calls[2])
             /\ remote["cc"] = r["cc"]
        ELSE /\ Len(calls) = 3
             /\ replies[3] = <<"fault">> =>
                   /\ outcome = "Fault"
                   /\ IsUpdate(calls[2]) /\ IsUpdate(calls[3])
                   /\ calls[3].params.cc = [add |-> args.cclist]
                   /\ \A i \in 1..Len(remote["cc"]) :
                         /\ \A j \in 1..Len(r["cc"]) : remote["cc"][i] # r["cc"][j]
                         /\ \A j \in 1..Len(args.cclist) :
                               remote["cc"][i] # args.cclist[j]
                   /\ remote["cc"] = <<>>

C12_Witness ==
    /\ InOverwrite
    /\ pc = "done"
    /\ outcome = "Fault"
    /\ Len(replies) = 3
    /\ replies[2] = <<"ok">>
    /\ replies[3] = <<"fault">>
    /\ r["cc"] = <<"x@example.com">>
    /\ args.cclist = <<"y@example.com">>
    /\ remote["cc"] = <<>>

\* C13: for action overwrite, append or prepend, _updatewhiteboard works on
\* the field which + '_whiteboard', or which itself when it already ends with
\* '_whiteboard'.  Overwrite issues no fetch and exactly one update, setting
\* the field to the text.  Append / prepend issue exactly one fetch and then
\* exactly one update, setting the field to current + ' ' + text / text + ' '
\* + current, current being the fetched value; when the fetched record lacks
\* the field the call fails with ValueError and no update is issued.
C13_WhiteboardUpdate ==
    (op = "_updatewhiteboard" /\ args.action \in {"overwrite", "append", "prepend"}) =>
        LET which == IF endswith(args.which, "_whiteboard") THEN args.which
                     ELSE args.which \o "_whiteboard"
            SetsField(c, text) ==
                /\ IsUpdate(c)
                /\ c.params.ids = <<args.objid>>
                /\ which \in DOMAIN c.params
                /\ c.params[which] = text
                /\ DOMAIN c.params \subseteq {"ids", which, "comment"}
        IN IF args.action = "overwrite"
           THEN /\ pc \in {"wb_update", "done"}
                /\ pc = "wb_update" => calls = <<>>
                /\ pc = "done" =>
                      /\ Len(calls) = 1
                      /\ SetsField(calls[1], args.text)
                      /\ outcome \in {"ok", "Fault"}
           ELSE /\ pc \in {"wb_getbug", "wb_update", "done"}
                /\ pc = "wb_getbug" => calls = <<>>
                /\ pc # "wb_getbug" =>
                      /\ Len(calls) >= 1
                      /\ calls[1] = getBugCall(args.objid)
                /\ pc = "wb_update" => Len(calls) = 1 /\ which \in DOMAIN r
                /\ pc = "done" =>
                      IF replies[1] = <<"fault">>
                      THEN Len(calls) = 1 /\ outcome = "Fault"
                      ELSE IF which \notin DOMAIN r
                      THEN Len(calls) = 1 /\ outcome = "ValueError"
                      ELSE /\ Len(calls) = 2
                           /\ outcome \in {"ok", "Fault"}
                           /\ SetsField(calls[2],
                                        IF args.action = "append"
                                        THEN r[which] \o " " \o args.text
                                        ELSE args.text \o " " \o r[which])

C13_Witness ==
    /\ op = "_updatewhiteboard"
    /\ args.action = "prepend"
    /\ args.which = "qa"
    /\ args.text = "w"
    /\ outcome = "ok"
    /\ Len(calls) = 2
    /\ IsFetch(calls[1])
    /\ calls[2].params["qa_whiteboard"] = "w old"
    /\ remote["qa_whiteboard"] = "w old"

-----------------------------------------------------------------------------
(* Claims about the component calls (specification CompSpec). *)

Missing(data, f) == f \notin DOMAIN data \/ ~Truthy(data[f])

\* C3: when a required field is missing or falsy, _addcomponent fails with
\* a validation error naming the first such field in the order product,
\* component, initialowner, description, and _editcomponent (product,
\* component, initialowner) with one naming a missing field; no remote call
\* is issued, the product lookup included, and the data mapping is unchanged.
C3_ComponentValidation ==
    /\ (op = "_addcomponent"
          /\ \E i \in 1..4 : Missing(args.given, add_required_fields[i])) =>
            /\ pc = "done"
            /\ outcome = "TypeError"
            /\ \E i \in 1..4 :
                  /\ Missing(args.given, add_required_fields[i])
                  /\ \A j \in 1..(i - 1) : ~Missing(args.given, add_required_fields[j])
                  /\ ret = StrV("mandatory fields missing: " \o add_required_fields[i])
            /\ calls = <<>>
            /\ args.data = args.given
    /\ (op = "_editcomponent"
          /\ \E f \in {"product", "component", "initialowner"} : Missing(args.given, f)) =>
            /\ pc = "done"
            /\ outcome = "TypeError"
            /\ \E f \in {"product", "component", "initialowner"} :
                  /\ Missing(args.given, f)
                  /\ ret = StrV("mandatory field missing: " \o f)
            /\ calls = <<>>
            /\ args.data = args.given

C3_Witness ==
    /\ op = "_addcomponent"
    /\ outcome = "TypeError"
    /\ DOMAIN args.given = {"product", "component", "description"}
    /\ args.given["product"] = IntV(3)
    /\ args.given["component"] = StrV("")
    /\ ret = StrV("mandatory fields missing: component")

-----------------------------------------------------------------------------
(* The query builder (specification QuerySpec). *)

\* the characters of a value besides the operator it uses
SplitChars == {"a", " ", "\t"}

QueryInit ==
    /\ multicall = TRUE
    /\ remote = EmptyDict
    /\ Idle

\* the strings handed to bool_smart_split that use the operator o
SplitInputs(o) == Strings(SplitChars \cup {o}, MaxSplitLen)

FieldNames == {"id", "bug_id", "blocks", "blocked"}
FieldLists == SeqUpTo(FieldNames, MaxFields)

\* the queries handed to pre_translation
PreQueries ==
    {idpart @@ comppart @@ incpart @@ colpart :
        idpart \in {EmptyDict, ("bug_id" :> StrV("1,2")), ("bug_id" :> ListV(<<"1", "2">>))},
        comppart \in {EmptyDict, ("component" :> StrV("a,b"))},
        incpart \in {EmptyDict} \cup {("include_fields" :> ListV(l)) : l \in FieldLists},
        colpart \in {EmptyDict} \cup {("column_list" :> ListV(l)) : l \in FieldLists}}

\* The keyword arguments handed to build_query.  The boolean filters are
\* drawn as a sequence of words, each with the filter key it goes to and
\* whether it starts a new value of that key; the words of one value are
\* joined by spaces.
QueryWords == {"a", "f-t", "f-t-v", "&", "|", "!"}
KeysUsed == <<"flag", "boolean_query">>
Items == [k : 1..Len(KeysUsed), nv : BOOLEAN, w : QueryWords]

\* an item may follow the items its: the keys come in the order of KeysUsed,
\* and the first word of a key starts a value
Follows(its, it) ==
    IF its = <<>> THEN it.nv
    ELSE /\ it.k >= its[Len(its)].k
         /\ it.k > its[Len(its)].k => it.nv

RECURSIVE ItemSeqsUpTo(_)
ItemSeqsUpTo(n) ==
    IF n = 0 THEN {<<>>}
    ELSE LET shorter == ItemSeqsUpTo(n - 1)
         IN shorter \cup
            { Append(p[1], p[2])
              : p \in {q \in {s \in shorter : Len(s) = n - 1} \X Items
                          : Follows(q[1], q[2])} }

ItemSeqs == ItemSeqsUpTo(MaxQueryWords)

\* the values (expressions) spelled by the items of one key
RECURSIVE Exprs(_)
Exprs(its) ==
    IF its = <<>> THEN <<>>
    ELSE LET rest == Exprs(Tail(its))
         IN IF rest = <<>> \/ its[2].nv THEN <<its[1].w>> \o rest
            ELSE <<its[1].w \o " " \o rest[1]>> \o Tail(rest)

KwargsOf(its) ==
    [key \in {KeysUsed[its[i].k] : i \in 1..Len(its)} |->
        ListV(Exprs(SelectSeq(its, LAMBDA it : KeysUsed[it.k] = key)))]

\* keyword arguments besides the boolean filters with a value
Extras ==
    { EmptyDict,
      [booleantype |-> StrV("exact"), dependson |-> None, fixed_in |-> None,
       cc |-> StrV("x@example.com"), emailtype |-> StrV("exact"), reporter |-> None,
       qa_contact |-> StrV("x@example.com"), assigned_to |-> StrV("y@example.com"),
       bug_id |-> StrV("1,2")] }

QueryBegin ==
    /\ pc = "idle"
    /\ \/ \E o \in boolchars : \E boolval \in SplitInputs(o) : smart_split(boolval)
       \/ \E query \in PreQueries : translate(query)
       \/ \E its \in ItemSeqs, extra \in Extras : build_query(KwargsOf(its) @@ extra)

QueryNext ==
    \/ QueryBegin

QuerySpec == QueryInit /\ [][QueryNext]_vars

-----------------------------------------------------------------------------
(* Claims about the query builder (specification QuerySpec). *)

\* a search term: not empty, no operator character, no space at either end
IsTerm(s) ==
    /\ s # ""
    /\ \A i \in 1..Len(s) : char(s, i) \notin boolchars
    /\ char(s, 1) \notin Whitespace
    /\ char(s, Len(s)) \notin Whitespace

\* C5 as claimed: a value made of two search terms joined by an operator
\* character, such as "a|b", is split into the three tokens term, operator,
\* term.
C5_SplitsAtOperatorChar ==
    (op = "bool_smart_split" /\ pc = "done") =>
        \A i \in 2..(Len(args.boolval) - 1) :
            LET t1 == SubSeq(args.boolval, 1, i - 1)
                o == char(args.boolval, i)
                t2 == SubSeq(args.boolval, i + 1, Len(args.boolval))
            IN (o \in boolchars /\ IsTerm(t1) /\ IsTerm(t2)) => ret = ListV(<<t1, o, t2>>)

\* C5 as amended: a value made of two search terms joined by an operator that
\* stands as a word of its own, a space on either side, such as "a | b", is
\* split into the three tokens term, operator, term, the spaces inside the
\* terms preserved; an operator character written between the terms without
\* spaces ("a|b") stays in the term, and the value is one token.
C5_SplitsAtOperatorWord ==
    (op = "bool_smart_split" /\ pc = "done") =>
        /\ \A i \in 3..(Len(args.boolval) - 2) :
            LET t1 == SubSeq(args.boolval, 1, i - 2)
                o == char(args.boolval, i)
                t2 == SubSeq(args.boolval, i + 2, Len(args.boolval))
            IN (/\ o \in boolchars
                /\ char(args.boolval, i - 1) = " "
                /\ char(args.boolval, i + 1) = " "
                /\ IsTerm(t1)
                /\ IsTerm(t2)) => ret = ListV(<<t1, o, t2>>)
        /\ \A i \in 2..(Len(args.boolval) - 1) :
            (/\ char(args.boolval, i) \in boolchars
             /\ IsTerm(SubSeq(args.boolval, 1, i - 1))
             /\ IsTerm(SubSeq(args.boolval, i + 1, Len(args.boolval))))
                => ret = ListV(<<args.boolval>>)

C5_Witness ==
    /\ op = "bool_smart_split"
    /\ pc = "done"
    /\ args.boolval = "a a | a"
    /\ ret = ListV(<<"a a", "|", "a">>)

Count(l, x) == Cardinality({i \in 1..Len(l) : l[i] = x})

OldNames == {field_aliases[i][2] : i \in 1..Len(field_aliases)}

\* the canonical name of a requested field
Canonical(name) ==
    IF name \in OldNames
    THEN field_aliases[CHOOSE i \in 1..Len(field_aliases) : field_aliases[i][2] = name][1]
    ELSE name

\* the field names a query requests under key
Requested(query, key) ==
    IF key \in DOMAIN query THEN {query[key][2][i] : i \in 1..Len(query[key][2])} ELSE {}

\* C8: after pre_translation of a query with a 'column_list' key, an
\* 'include_fields' key or both, the query has no 'column_list' key, its
\* 'include_fields' holds the requested fields of both keys, no legacy name
\* of the alias table remains in it, and a canonical name that replaced a
\* legacy one occurs only once.
C8_IncludeFieldsCanonical ==
    (op = "pre_translation" /\ pc = "done"
        /\ ("column_list" \in DOMAIN args.given \/ "include_fields" \in DOMAIN args.given)) =>
            /\ "column_list" \notin DOMAIN args.query
            /\ "include_fields" \in DOMAIN args.query
            /\ LET include_fields == args.query["include_fields"][2]
                   requested == Requested(args.given, "column_list")
                                    \cup Requested(args.given, "include_fields")
               IN /\ \A name \in requested : Contains(include_fields, Canonical(name))
                  /\ \A i \in 1..Len(include_fields) : include_fields[i] \notin OldNames
                  /\ \A name \in requested \cap OldNames :
                        Count(include_fields, Canonical(name)) = 1

BuildDone == op = "build_query" /\ pc = "done" /\ outcome = "ok"

startswith(s, prefix) == Len(s) >= Len(prefix) /\ SubSeq(s, 1, Len(prefix)) = prefix

\* the boolean filter keys in the order build_query takes them
BoolOrder ==
    <<"fixed_in", "blocked", "dependson", "flag", "qa_whiteboard", "devel_whiteboard",
      "alias", "boolean_query">>

\* the values given under the i-th boolean filter key, none when the key is
\* absent or None
ValuesAt(kwargs, i) ==
    IF BoolOrder[i] \in DOMAIN kwargs /\ kwargs[BoolOrder[i]] # None
    THEN kwargs[BoolOrder[i]][2]
    ELSE <<>>

PresentAt(kwargs, i) == BoolOrder[i] \in DOMAIN kwargs /\ kwargs[BoolOrder[i]] # None

KeysBefore(kwargs, i) == Cardinality({j \in 1..(i - 1) : PresentAt(kwargs, j)})

RECURSIVE ValuesBefore(_, _)
ValuesBefore(kwargs, i) ==
    IF i = 1 THEN 0 ELSE ValuesBefore(kwargs, i - 1) + Len(ValuesAt(kwargs, i - 1))

IsOperator(par) == par \in {"&", "|", "!"}

\* the number of tokens equal to c before the j-th token
Before(tokens, j, c) == Cardinality({i \in 1..(j - 1) : tokens[i] = c})

\* the beginnings <prefix><chart>- of the position keys, with their chart
ChartPrefixes ==
    {<<c, prefix \o itoa(c) \o "-">> :
        prefix \in {"field", "value", "type"}, c \in 0..(2 * MaxQueryWords + 1)}

\* the position keys <prefix><chart>-<and>-<or> with chart >= n
ChartsFrom(query, n) ==
    {k \in DOMAIN query : \E p \in ChartPrefixes : p[1] >= n /\ startswith(k, p[2])}

\* C6: an operator token writes no field / value / type key: in the query
\* build_query returns no field key is None, no value key holds an operator
\* character, and a boolean_query term of the form field-type has no value
\* key at its position.
C6_OperatorsWriteNoKeys ==
    BuildDone =>
        LET query == ret[2]
        IN /\ \A k \in DOMAIN query :
                /\ startswith(k, "field") => query[k] # None
                /\ startswith(k, "value") =>
                        query[k] \notin {StrV("&"), StrV("|"), StrV("!")}
           /\ \A v \in 1..Len(ValuesAt(args.kwargs, 8)) :
                \A tokens \in {bool_smart_split(ValuesAt(args.kwargs, 8)[v])},
                   chart \in {ValuesBefore(args.kwargs, 8) + v - 1} :
                  \A j \in 1..Len(tokens) :
                    (~IsOperator(tokens[j]) /\ Len(splitmax(tokens[j], "-", 2)) = 2) =>
                        make_bool_str("value", chart, Before(tokens, j, "&"),
                                      Before(tokens, j, "|")) \notin DOMAIN query

\* C7 as claimed: the chart counter starts at 0 and increments once per
\* boolean filter key: every search term of every value of the k-th key that
\* is present with a non-None value has its field and type keys under chart
\* id k-1, and no chart id beyond the number of such keys is used.
C7_ChartPerKey ==
    BuildDone =>
        LET query == ret[2]
        IN /\ \A i \in 1..Len(BoolOrder) : \A v \in 1..Len(ValuesAt(args.kwargs, i)) :
                \A tokens \in {bool_smart_split(ValuesAt(args.kwargs, i)[v])},
                   chart \in {KeysBefore(args.kwargs, i)} :
                  \A j \in 1..Len(tokens) :
                    ~IsOperator(tokens[j]) =>
                        /\ make_bool_str("field", chart, Before(tokens, j, "&"),
                                         Before(tokens, j, "|")) \in DOMAIN query
                        /\ make_bool_str("type", chart, Before(tokens, j, "&"),
                                         Before(tokens, j, "|")) \in DOMAIN query
           /\ ChartsFrom(query, KeysBefore(args.kwargs, Len(BoolOrder) + 1)) = {}

\* C7 as amended: the chart counter starts at 0 and increments once per
\* value of a boolean filter key, after the tokens of that value have been
\* processed: the v-th value of a key has chart id n + v - 1, n being the
\* number of values of the keys before it in the fixed order (an absent or
\* None key has none), every search term of the value has its field and type
\* keys under that chart id, and no chart id beyond the number of values is
\* used.
C7_ChartPerValue ==
    BuildDone =>
        LET query == ret[2]
        IN /\ \A i \in 1..Len(BoolOrder) : \A v \in 1..Len(ValuesAt(args.kwargs, i)) :
                \A tokens \in {bool_smart_split(ValuesAt(args.kwargs, i)[v])},
                   chart \in {ValuesBefore(args.kwargs, i) + v - 1} :
                  \A j \in 1..Len(tokens) :
                    ~IsOperator(tokens[j]) =>
                        /\ make_bool_str("field", chart, Before(tokens, j, "&"),
                                         Before(tokens, j, "|")) \in DOMAIN query
                        /\ make_bool_str("type", chart, Before(tokens, j, "&"),
                                         Before(tokens, j, "|")) \in DOMAIN query
           /\ ChartsFrom(query, ValuesBefore(args.kwargs, Len(BoolOrder) + 1)) = {}

C7_Witness ==
    /\ BuildDone
    /\ DOMAIN args.kwargs = {"flag", "boolean_query"}
    /\ args.kwargs["flag"] = ListV(<<"a", "a">>)
    /\ args.kwargs["boolean_query"] = ListV(<<"f-t">>)
    /\ "field2-0-0" \in DOMAIN ret[2]
    /\ ret[2]["field2-0-0"] = StrV("f")
    /\ ret[2]["field1-0-0"] = StrV("flagtypes.name")

-----------------------------------------------------------------------------
(* _query and post_translation (specification SearchSpec).  A bug record of *)
(* a search result is a function from field names to Python values.         *)

MaxBugs == 2    \* longest list of bugs a search returns

\* sep.join(l) for a list of strings
RECURSIVE join(_, _)
join(sep, l) ==
    IF l = <<>> THEN ""
    ELSE IF Len(l) = 1 THEN l[1]
    ELSE l[1] \o sep \o join(sep, Tail(l))

\* if 'flags' in bug: ... bug['flags'] = ",".join(tmpstr)
post_flags(bug) ==
    IF "flags" \in DOMAIN bug
    THEN LET flags == bug["flags"][2]
             tmpstr == [i \in 1..Len(flags) |-> flags[i].name \o flags[i].status]
         IN ("flags" :> StrV(join(",", tmpstr))) @@ bug
    ELSE bug

\* a variant that fills 'blockedby' only and leaves 'blocked' as it is
post_blocks_blockedby_only(bug) ==
    IF "blocks" \in DOMAIN bug
    THEN LET blocks == bug["blocks"][2]
             strs == [i \in 1..Len(blocks) |-> itoa(blocks[i])]
         IN ("blockedby" :> StrV(join(",", strs))) @@ bug
    ELSE bug

\* if 'blocks' in bug: ... bug['blockedby'] and bug['blocked']
post_blocks(bug) ==
    IF "blocks" \in DOMAIN bug
    THEN LET blocks == bug["blocks"][2]
             strs == [i \in 1..Len(blocks) |-> itoa(blocks[i])]
         IN IF Len(blocks) > 0
            THEN ("blockedby" :> StrV(join(",", strs)))
                    @@ ("blocked" :> StrV(join(",", strs))) @@ bug
            ELSE ("blockedby" :> StrV("")) @@ ("blocked" :> StrV("")) @@ bug
    ELSE bug

\* if 'keywords' in bug: ...
post_keywords(bug) ==
    IF "keywords" \in DOMAIN bug
    THEN IF Len(bug["keywords"][2]) > 0
         THEN ("keywords" :> StrV(join(",", bug["keywords"][2]))) @@ bug
         ELSE ("keywords" :> StrV("")) @@ bug
    ELSE bug

\* if 'component' in bug: bug['components'] = bug['component'];
\* bug['component'] = bug['component'][0], an IndexError for an empty list
post_component_raises(bug) == "component" \in DOMAIN bug /\ bug["component"][2] = <<>>

post_component(bug) ==
    IF "component" \in DOMAIN bug
    THEN ("component" :> StrV(bug["component"][2][1]))
            @@ ("components" :> bug["component"]) @@ bug
    ELSE bug

\* if 'alias' in bug: ...
post_alias(bug) ==
    IF "alias" \in DOMAIN bug
    THEN IF Len(bug["alias"][2]) > 0
         THEN ("alias" :> StrV(join(",", bug["alias"][2]))) @@ bug
         ELSE ("alias" :> StrV("")) @@ bug
    ELSE bug

\* if 'groups' in bug: ... a list of dicts name / description / ison
post_groups(bug) ==
    IF "groups" \in DOMAIN bug
    THEN LET groups == bug["groups"][2]
         IN ("groups" :> ListV([i \in 1..Len(groups) |->
                                [name |-> groups[i], description |-> groups[i],
                                 ison |-> 1]])) @@ bug
    ELSE bug

\* post_translation(query, bug): the record as the method leaves it, and
\* whether it raised (the steps after the raise are not taken)
post_translation(query, bug) ==
    LET s1 == {post_flags(b) : b \in {bug}}
        s2 == {post_blocks(b) : b \in s1}
        s3 == {post_keywords(b) : b \in s2}
        s4 == {IF post_component_raises(b) THEN [bug |-> b, err |-> TRUE]
               ELSE [bug |-> post_groups(post_alias(post_component(b))), err |-> FALSE]
               : b \in s3}
    IN CHOOSE st \in s4 : TRUE

\* for bug in ret['bugs']: self.post_translation(query, bug)
RECURSIVE post_loop(_, _, _)
post_loop(query, bugs, done) ==
    IF bugs = <<>> THEN [bugs |-> done, err |-> FALSE]
    ELSE CHOOSE out \in
           { IF st.err THEN [bugs |-> done \o <<st.bug>> \o Tail(bugs), err |-> TRUE]
             ELSE post_loop(query, Tail(bugs), Append(done, st.bug))
             : st \in {post_translation(query, Head(bugs))} } : TRUE

\* old = query.copy(); self.pre_translation(query)
query_begin(query) ==
    /\ pc = "idle"
    /\ op' = "_query"
    /\ args' = [query |-> pre_translation(query), given |-> query]
    /\ pc' = "q_search"
    /\ UNCHANGED <<multicall, remote, r, update, calls, replies, outcome, ret>>

\* ret = self._proxy.Bug.search(query): the call faults, or the server
\* answers with the dict result
query_search(fault, result) ==
    /\ pc = "q_search"
    /\ calls' = Append(calls, Call("Bug.search", args.query))
    /\ replies' = Append(replies, <<Reply(fault)>>)
    /\ IF fault
       THEN pc' = "done" /\ outcome' = "Fault" /\ ret' = ret
       ELSE pc' = "q_post" /\ outcome' = outcome /\ ret' = DictV(result)
    /\ UNCHANGED <<multicall, remote, op, args, r, update>>

\* the loop over ret['bugs'] and return ret
query_post ==
    /\ pc = "q_post"
    /\ \E res \in {post_loop(args.query, ret[2]["bugs"], <<>>)} :
          /\ ret' = DictV(("bugs" :> res.bugs) @@ ret[2])
          /\ outcome' = (IF res.err THEN "IndexError" ELSE "ok")
    /\ pc' = "done"
    /\ UNCHANGED <<multicall, remote, op, args, r, update, calls, replies>>

\* the queries handed to _query
SearchQueries ==
    {idpart @@ comppart @@ incpart :
        idpart \in {EmptyDict, ("bug_id" :> StrV("1,2")), ("bug_id" :> ListV(<<"1", "2">>)),
                    [bug_id |-> StrV("3"), id |-> ListV(<<"1">>)]},
        comppart \in {EmptyDict, ("component" :> StrV("a,b"))},
        incpart \in {EmptyDict, ("column_list" :> ListV(<<"bug_id", "blocked">>))}}

\* the bug records a search may return
BlocksLists == {<<>>, <<1>>, <<2, 11>>}
SearchBugs ==
    {blockspart @@ oldpart @@ rest :
        blockspart \in {EmptyDict} \cup {("blocks" :> ListV(l)) : l \in BlocksLists},
        oldpart \in {EmptyDict, [blocked |-> StrV("9"), id |-> IntV(1)]},
        rest \in {EmptyDict,
                  ("component" :> ListV(<<>>)),
                  [component |-> ListV(<<"c", "d">>),
                   flags |-> ListV(<<[name |-> "f", status |-> "+"],
                                     [name |-> "g", status |-> "?"]>>),
                   keywords |-> ListV(<<"k", "l">>),
                   alias |-> ListV(<<>>),
                   groups |-> ListV(<<"devel">>)],
                  [keywords |-> ListV(<<>>), alias |-> ListV(<<"a", "b">>),
                   flags |-> ListV(<<>>)]}}

SearchResults == {[bugs |-> bugs] : bugs \in SeqUpTo(SearchBugs, MaxBugs)}

SearchInit ==
    /\ multicall = TRUE
    /\ remote = EmptyDict
    /\ Idle

SearchBegin ==
    /\ pc = "idle"
    /\ \E query \in SearchQueries : query_begin(query)

SearchReply ==
    /\ pc = "q_search"
    /\ \E fault \in BOOLEAN, result \in SearchResults : query_search(fault, result)

SearchNext ==
    \/ SearchBegin
    \/ SearchReply
    \/ query_post

SearchSpec == SearchInit /\ [][SearchNext]_vars

-----------------------------------------------------------------------------
(* Claims about _query (specification SearchSpec). *)

\* the record has a 'blocks' list and 'blocked' and 'blockedby' both spell it
BlocksSpelled(bug) ==
    "blocks" \in DOMAIN bug =>
        LET blocks == bug["blocks"][2]
            spelled == IF blocks = <<>> THEN ""
                       ELSE join(",", [i \in 1..Len(blocks) |-> itoa(blocks[i])])
        IN /\ {"blocked", "blockedby"} \subseteq DOMAIN bug
           /\ bug["blocked"] = StrV(spelled)
           /\ bug["blockedby"] = StrV(spelled)

\* C11: _query takes its steps in order.  No search call goes out before
\* pre-translation; the one search call carries the pre-translated query,
\* which has no 'bug_id' key, a bug_id given as a comma-separated string
\* arriving as the list 'id' of its parts; never more than one search call is
\* issued; and when _query returns, every record of the result that has a
\* 'blocks' list has 'blocked' and 'blockedby' both equal to the ids joined
\* by commas, the empty string for an empty list.
C11_QueryStepsInOrder ==
    op = "_query" =>
        /\ pc \in {"q_search", "q_post", "done"}
        /\ pc = "q_search" => calls = <<>> /\ ret = None
        /\ pc \in {"q_post", "done"} =>
              /\ Len(calls) = 1
              /\ calls[1].method = "Bug.search"
              /\ "bug_id" \notin DOMAIN calls[1].params
              /\ "bug_id" \in DOMAIN args.given =>
                    /\ "id" \in DOMAIN calls[1].params
                    /\ calls[1].params["id"] =
                          (IF args.given["bug_id"][1] = "str"
                           THEN ListV(split(args.given["bug_id"][2], ","))
                           ELSE args.given["bug_id"])
              /\ \A k \in DOMAIN args.given \ {"bug_id", "id", "component", "column_list",
                                               "include_fields"} :
                    k \in DOMAIN calls[1].params /\ calls[1].params[k] = args.given[k]
        /\ pc = "done" =>
              /\ outcome \in {"ok", "Fault", "IndexError"}
              /\ outcome = "Fault" <=> replies[1] = <<"fault">>
              /\ outcome = "ok" =>
                    \A i \in 1..Len(ret[2]["bugs"]) : BlocksSpelled(ret[2]["bugs"][i])

C11_Witness ==
    /\ op = "_query"
    /\ pc = "done"
    /\ outcome = "ok"
    /\ args.given = ("bug_id" :> StrV("1,2"))
    /\ calls = <<Call("Bug.search", ("id" :> ListV(<<"1", "2">>)))>>
    /\ Len(ret[2]["bugs"]) = 2
    /\ ret[2]["bugs"][1] = [blocks |-> ListV(<<2, 11>>), blocked |-> StrV("2,11"),
                            blockedby |-> StrV("2,11")]
    /\ ret[2]["bugs"][2] = [blocks |-> ListV(<<>>), blocked |-> StrV(""),
                            blockedby |-> StrV(""), id |-> IntV(1)]

====
